---- MODULE Spec2Model ----
(***************************************************************************)
(* Model of the DreamLayer browser client:                                 *)
(*   - DreamLayerAPI    (src/src/services/dreamLayerAPI.ts), the HTTP      *)
(*     client of the generation backend;                                   *)
(*   - ImageCompositor  (src/unnamed/part_000), the canvas compositor of   *)
(*     the disc cover.                                                     *)
(* Each async method is a sequence of steps, one per suspension point      *)
(* (await); the environment (network, image loader, canvas) settles each   *)
(* suspension with one of the outcomes the platform can produce.           *)
(***************************************************************************)
EXTENDS Integers, Sequences, FiniteSets, TLC

VARIABLES
    api,        \* the DreamLayerAPI instance: its four private URL fields
    apiPc,      \* position of the client invocation in flight
    apiCall,    \* the public method called and its arguments
    genRequest, \* the GenerationRequest generateImage was entered with
    genCalls,   \* number of times generateImage was entered
    payload,    \* the payload object built by generateImage
    requests,   \* HTTP requests issued by the invocation, in order
    response,   \* the Response the pending fetch resolved with
    apiResult,  \* how the invocation settled: returned value or thrown error
    console,    \* messages the client wrote with console.error
    comp,       \* the compositeDiscCover invocation: position, surfaces, result
    urlResult,  \* the calls of getImageURL so far and what the last one returned
    comps,      \* two compositeDiscCover invocations of the same page
    available,  \* the browser's list of available images (keys: image URLs)
    loading     \* image URLs the browser is still loading after their use

\* the state the methods modelled first leave alone
others == <<urlResult, comps, available, loading>>

-----------------------------------------------------------------------------
(* JavaScript values that flow through optional fields: undefined, a number *)
(* or a string.  One record shape for all three keeps equality total.       *)

Undef == [t |-> "undefined", n |-> 0, s |-> ""]

Num(k) == [t |-> "number", n |-> k, s |-> ""]

Str(x) == [t |-> "string", n |-> 0, s |-> x]

\* ToBoolean: undefined, 0 and "" are falsy
Truthy(v) ==
    CASE v.t = "undefined" -> FALSE
      [] v.t = "number"    -> v.n # 0
      [] v.t = "string"    -> v.s # ""

\* a || b: every falsy a is replaced
Or(a, b) == IF Truthy(a) THEN a ELSE b

-----------------------------------------------------------------------------
(* GenerationRequest and the payload built from it *)

OptionalFields == {"negative_prompt", "checkpoint", "steps", "cfg", "width",
                   "height", "batch_size"}

Fields == {"prompt"} \cup OptionalFields

StringFields == {"negative_prompt", "checkpoint"}

\* the request { prompt } with every optional field left unset
OnlyPrompt(p) == [f \in Fields |-> IF f = "prompt" THEN Str(p) ELSE Undef]

\* the literal on the right of each || in generateImage (7.0 is the number 7)
DefaultOf(f) ==
    CASE f = "negative_prompt" -> Str("blurry, low quality, bad anatomy")
      [] f = "checkpoint"      -> Str("stable-diffusion-v1-5.safetensors")
      [] f = "steps"           -> Num(20)
      [] f = "cfg"             -> Num(7)
      [] f = "width"           -> Num(300)
      [] f = "height"          -> Num(300)
      [] f = "batch_size"      -> Num(1)

\* a payload that fills the size with the backend's own 512 instead of 300
BuildPayloadBackendSize(request) ==
    [f \in Fields |-> IF f = "prompt" THEN request[f]
                      ELSE IF f \in {"width", "height"} THEN Or(request[f], Num(512))
                      ELSE Or(request[f], DefaultOf(f))]

BuildPayload(request) ==
    [f \in Fields |-> IF f = "prompt" THEN request[f]
                      ELSE Or(request[f], DefaultOf(f))]

\* JSON.stringify of an object omits the members whose value is undefined
JSONStringify(obj) ==
    [f \in {g \in DOMAIN obj : obj[g].t # "undefined"} |-> obj[f]]

-----------------------------------------------------------------------------
(* The client instance *)

DefaultBaseURL == "http://localhost"

Constructor(baseURL) ==
    [baseURL    |-> baseURL,
     txt2imgURL |-> baseURL \o ":5001/api/txt2img",
     modelsURL  |-> baseURL \o ":5002/api/models",
     imagesURL  |-> baseURL \o ":5001/api/images"]

\* encodeURIComponent on the file names tried
EncodeURIComponent(filename) ==
    IF filename = "a b&c?.png" THEN "a%20b%26c%3F.png" ELSE filename

\* a getImageURL that escapes the file name
getImageURLEscaped(self, filename) ==
    self.imagesURL \o "/" \o EncodeURIComponent(filename)

getImageURL(self, filename) == self.imagesURL \o "/" \o filename

-----------------------------------------------------------------------------
(* The environment of the client: what fetch can settle with *)

HttpStatuses == {200, 204, 404, 500}

\* Response.ok: the status is in the range 200-299
Ok(r) == r.status >= 200 /\ r.status <= 299

NoArray == [t |-> "undefined", items |-> <<>>]

Array(xs) == [t |-> "array", items |-> xs]

\* A response body.  readable: the body stream can be read to its end;
\* parse: what JSON.parse makes of the text ("invalid": a SyntaxError,
\* "null": the value null, "object": an object with the members below);
\* bytes: the raw content.
Body(readable, parse, status, models, images, error, bytes) ==
    [readable |-> readable, parse |-> parse, status |-> status,
     models |-> models, generated_images |-> images, error |-> error,
     bytes |-> bytes]

Unreadable == Body(FALSE, "invalid", Undef, NoArray, NoArray, Undef, "")

NotJSON == Body(TRUE, "invalid", Undef, NoArray, NoArray, Undef, "<html>Bad Gateway</html>")

JSONNull == Body(TRUE, "null", Undef, NoArray, NoArray, Undef, "null")

ModelsBodies ==
    {Unreadable, NotJSON, JSONNull}
    \cup {Body(TRUE, "object", st, ms, NoArray, Undef, "{models}") :
            st \in {Undef, Str("success"), Str("error"), Str("Success")},
            ms \in {NoArray, Array(<<>>), Array(<<"sd15">>), Array(<<"sd15", "sdxl">>)}}

Txt2imgBodies ==
    {Unreadable, NotJSON, JSONNull,
     Body(TRUE, "object", Str("success"), NoArray, Array(<<"cover_1.png">>), Undef, "{images}"),
     Body(TRUE, "object", Str("error"), NoArray, NoArray, Str("CUDA out of memory"), "{error}"),
     Body(TRUE, "object", Undef, NoArray, NoArray, Str("no checkpoint"), "{error only}")}

ImageBodies ==
    {Unreadable,
     Body(TRUE, "invalid", Undef, NoArray, NoArray, Undef, "PNG-bytes"),
     Body(TRUE, "invalid", Undef, NoArray, NoArray, Undef, "")}

BodiesFor(op) ==
    CASE op = "getModels"     -> ModelsBodies
      [] op = "downloadImage" -> ImageBodies
      [] OTHER                -> Txt2imgBodies

NoResponse == [status |-> 0, body |-> Unreadable]

-----------------------------------------------------------------------------
(* Inputs of the client's methods *)

Prompts == {"", "a cat"}

\* number of distinct set values tried for each optional field
MaxInput == 2

\* the i-th input tried for an optional field: unset (0), falsy (1), or a
\* value of the caller's own
InputOf(f, i) ==
    CASE i = 0 -> Undef
      [] i = 1 -> IF f \in StringFields THEN Str("") ELSE Num(0)
      [] OTHER -> IF f \in StringFields THEN Str("custom" \o ToString(i)) ELSE Num(62 + i)

Requests ==
    {[f \in Fields |-> IF f = "prompt" THEN Str(p) ELSE InputOf(f, c[f])] :
        p \in Prompts, c \in [OptionalFields -> 0..MaxInput]}

Filenames == {"cover_1.png", "a b&c?.png", ""}

Styles == {"gradients", "abstract", "nature"}

Moods == {"calm", ""}

PlaylistNames == {Undef, Str(""), Str("Late Night")}

NoRequest == [f \in Fields |-> Undef]

NoCall == [op |-> "none", request |-> NoRequest, filename |-> "",
           style |-> "", mood |-> "", playlistName |-> Undef]

-----------------------------------------------------------------------------
(* How an invocation settles *)

Pending == [outcome |-> "pending", value |-> "", error |-> ""]

Return(v) == [outcome |-> "returned", value |-> v, error |-> ""]

Throw(e) == [outcome |-> "thrown", value |-> "", error |-> e]

\* the message each catch block logs before it rethrows
CatchLabel(op) ==
    CASE op = "getModels"     -> "Error fetching models:"
      [] op = "downloadImage" -> "Error downloading image:"
      [] OTHER                -> "Error generating image:"

-----------------------------------------------------------------------------
(* DreamLayerAPI: what each method does at each of its steps *)

Get(url) == [method |-> "GET", url |-> url, contentType |-> "", body |-> <<>>]

PostJSON(url, obj) ==
    [method |-> "POST", url |-> url, contentType |-> "application/json",
     body |-> JSONStringify(obj)]

\* getModels after response.json() resolved with data
GetModelsIgnoringStatus(data) ==
    IF data.parse = "null"
    THEN Throw("TypeError: Cannot read properties of null")
    ELSE Return(data.models)

GetModelsOnData(data) ==
    IF data.parse = "null"
    THEN Throw("TypeError: Cannot read properties of null")
    ELSE IF data.status = Str("success")
         THEN Return(data.models)
         ELSE Throw("Failed to fetch models")

\* generateImage after response.json() resolved with data
GenerateImageCheckingStatus(data) ==
    IF data.parse = "object" /\ data.status = Str("success")
    THEN Return(data)
    ELSE Throw("Generation failed")

GenerateImageOnData(data) == Return(data)

\* the templates of generatePlaylistCover
StylePrompt(style, mood) ==
    CASE style = "gradients" -> "beautiful gradient, " \o mood \o ", artistic, 300x300px, square"
      [] style = "abstract"  -> "abstract geometric shapes, " \o mood \o ", modern art, 300x300px, square"
      [] style = "nature"    -> "nature landscape, " \o mood \o ", scenic, 300x300px, square"

\* the request generatePlaylistCover hands to generateImage
PlaylistCoverRequestNeverEnhanced(style, mood, playlistName) ==
    OnlyPrompt(StylePrompt(style, mood))

PlaylistCoverRequest(style, mood, playlistName) ==
    IF Truthy(playlistName)
    THEN OnlyPrompt(StylePrompt(style, mood) \o ", inspired by \"" \o playlistName.s \o "\"")
    ELSE OnlyPrompt(StylePrompt(style, mood))

\* downloadImage after fetch resolved with r: TRUE when it goes on to read
\* the body, FALSE when it throws
DownloadProceedsAlways(r) == TRUE

DownloadProceeds(r) == Ok(r)

\* the URL downloadImage fetches
DownloadURLUnprefixed(self, filename) == filename

DownloadURL(self, filename) == getImageURL(self, filename)

-----------------------------------------------------------------------------
(* Client actions *)

\* entry of generateImage(request): build the payload, start the POST
EnterGenerateImage(request) ==
    /\ genRequest' = request
    /\ genCalls' = genCalls + 1
    /\ payload' = BuildPayload(request)
    /\ requests' = Append(requests, PostJSON(api.txt2imgURL, BuildPayload(request)))
    /\ apiPc' = "fetch"

CallGetModels ==
    /\ apiPc = "idle"
    /\ apiCall' = [NoCall EXCEPT !.op = "getModels"]
    /\ requests' = Append(requests, Get(api.modelsURL))
    /\ apiPc' = "fetch"
    /\ UNCHANGED <<api, genRequest, genCalls, payload, response, apiResult, console, comp, others>>

CallGenerateImage ==
    /\ apiPc = "idle"
    /\ \E request \in Requests :
         /\ apiCall' = [NoCall EXCEPT !.op = "generateImage", !.request = request]
         /\ EnterGenerateImage(request)
    /\ UNCHANGED <<api, response, apiResult, console, comp, others>>

CallGeneratePlaylistCover ==
    /\ apiPc = "idle"
    /\ \E style \in Styles, mood \in Moods, playlistName \in PlaylistNames :
         /\ apiCall' = [NoCall EXCEPT !.op = "generatePlaylistCover", !.style = style,
                                      !.mood = mood, !.playlistName = playlistName]
         /\ EnterGenerateImage(PlaylistCoverRequest(style, mood, playlistName))
    /\ UNCHANGED <<api, response, apiResult, console, comp, others>>

CallDownloadImage ==
    /\ apiPc = "idle"
    /\ \E filename \in Filenames :
         /\ apiCall' = [NoCall EXCEPT !.op = "downloadImage", !.filename = filename]
         /\ requests' = Append(requests, Get(DownloadURL(api, filename)))
    /\ apiPc' = "fetch"
    /\ UNCHANGED <<api, genRequest, genCalls, payload, response, apiResult, console, comp, others>>

\* the catch block of every method: log, rethrow; nothing is sent again
Caught(e) ==
    /\ console' = Append(console, CatchLabel(apiCall.op))
    /\ apiResult' = Throw(e)
    /\ apiPc' = "done"
    /\ UNCHANGED requests

Settle(result) ==
    IF result.outcome = "thrown"
    THEN Caught(result.error)
    ELSE /\ apiResult' = result
         /\ apiPc' = "done"
         /\ UNCHANGED <<console, requests>>

\* fetch rejects: the network is unreachable
FetchRejects ==
    /\ apiPc = "fetch"
    /\ Caught("TypeError: Failed to fetch")
    /\ UNCHANGED <<api, apiCall, genRequest, genCalls, payload, response, comp, others>>

\* fetch resolves with a Response, whatever its status
FetchResolves ==
    /\ apiPc = "fetch"
    /\ \E status \in HttpStatuses, body \in BodiesFor(apiCall.op) :
         LET r == [status |-> status, body |-> body] IN
         /\ response' = r
         /\ IF apiCall.op = "downloadImage"
            THEN IF DownloadProceeds(r)
                 THEN apiPc' = "blob" /\ UNCHANGED <<apiResult, console, requests>>
                 ELSE Caught("Failed to download image")
            ELSE apiPc' = "json" /\ UNCHANGED <<apiResult, console, requests>>
    /\ UNCHANGED <<api, apiCall, genRequest, genCalls, payload, comp, others>>

\* response.json() settles
JsonSettles ==
    /\ apiPc = "json"
    /\ IF ~response.body.readable
       THEN Caught("TypeError: body stream error")
       ELSE IF response.body.parse = "invalid"
       THEN Caught("SyntaxError: Unexpected token")
       ELSE IF apiCall.op = "getModels"
       THEN Settle(GetModelsOnData(response.body))
       ELSE Settle(GenerateImageOnData(response.body))
    /\ UNCHANGED <<api, apiCall, genRequest, genCalls, payload, response, comp, others>>

\* response.blob() settles
BlobSettles ==
    /\ apiPc = "blob"
    /\ IF ~response.body.readable
       THEN Caught("TypeError: body stream error")
       ELSE Settle(Return(response.body.bytes))
    /\ UNCHANGED <<api, apiCall, genRequest, genCalls, payload, response, comp, others>>


\* number of getImageURL calls followed
MaxURLCalls == 2

NoURL == [calls |-> 0, filename |-> "", value |-> ""]

\* getImageURL(filename): synchronous, so it can be called at any point of
\* another method's invocation
CallGetImageURL ==
    /\ urlResult.calls < MaxURLCalls
    /\ \E filename \in Filenames :
         urlResult' = [calls |-> urlResult.calls + 1, filename |-> filename,
                       value |-> getImageURL(api, filename)]
    /\ UNCHANGED <<api, apiPc, apiCall, genRequest, genCalls, payload, requests,
                   response, apiResult, console, comp, comps, available, loading>>

-----------------------------------------------------------------------------
(* Canvas model.  A surface is either a picture (a decoded bitmap, each of  *)
(* whose pixels is named by its source and position) or a canvas, kept as   *)
(* the ordered list of the drawing commands applied to it; PixelOf renders  *)
(* a pixel from that list.  A pixel is sampled at its centre (x + 1/2,      *)
(* y + 1/2); a scaled drawImage samples the nearest source pixel.           *)

Colour(name) == [src |-> name, u |-> 0, v |-> 0]

Transparent == Colour("transparent")

Picture(name, w, h) == [kind |-> "picture", name |-> name, width |-> w, height |-> h]

\* an HTMLImageElement: decoded tells whether its picture is available to
\* drawImage yet (the image request is completely available)
Image(decoded, picture) == [decoded |-> decoded, picture |-> picture]

\* arc(cx, cy, r, 0, 2*PI, ccw): a full circle; the centre is kept doubled
\* (cx2 = 2*cx) and the radius as the fraction rn/rd, so that size/2,
\* size*0.4 and size*0.08 stay exact
Circle(cx2, cy2, rn, rd, ccw) ==
    [cx2 |-> cx2, cy2 |-> cy2, rn |-> rn, rd |-> rd, ccw |-> ccw]

\* the centre of pixel (x, y) lies strictly inside the circle
InCircle(k, x, y) ==
    ((2 * x + 1 - k.cx2) * (2 * x + 1 - k.cx2)
       + (2 * y + 1 - k.cy2) * (2 * y + 1 - k.cy2)) * k.rd * k.rd
    < 4 * k.rn * k.rn

RECURSIVE Winding(_, _, _)
\* winding number of a path of circles around the centre of pixel (x, y):
\* a clockwise circle counts +1, a counter-clockwise one -1
Winding(path, x, y) ==
    IF path = <<>> THEN 0
    ELSE (IF InCircle(Head(path), x, y)
          THEN (IF Head(path).ccw THEN -1 ELSE 1) ELSE 0)
         + Winding(Tail(path), x, y)

\* the non-zero winding rule, the default of fill() and clip()
InPath(path, x, y) == Winding(path, x, y) # 0

\* the clipping region is the intersection of the clipped paths
InClip(clip, x, y) == \A i \in 1..Len(clip) : InPath(clip[i], x, y)

\* fillRect(x, y, 1, 1) at a fractional position, in 1/100000 of a pixel:
\* the pixels the unit square overlaps
InUnitRect(rx, ry, x, y) ==
    /\ x * 100000 < rx + 100000 /\ (x + 1) * 100000 > rx
    /\ y * 100000 < ry + 100000 /\ (y + 1) * 100000 > ry

\* createCanvas / document.createElement('canvas') with its 2D context state
NewCanvas(size) ==
    [kind |-> "canvas", width |-> size, height |-> size, drawn |-> <<>>,
     fillStyle |-> "#000000", path |-> <<>>, clip |-> <<>>, saved |-> <<>>]

Save(c) == [c EXCEPT !.saved = <<[clip |-> c.clip, fillStyle |-> c.fillStyle]>> \o @]

Restore(c) ==
    IF c.saved = <<>> THEN c
    ELSE [c EXCEPT !.clip = Head(c.saved).clip,
                   !.fillStyle = Head(c.saved).fillStyle,
                   !.saved = Tail(@)]

SetFillStyle(c, style) == [c EXCEPT !.fillStyle = style]

BeginPath(c) == [c EXCEPT !.path = <<>>]

Arc(c, k) == [c EXCEPT !.path = Append(@, k)]

Clip(c) == [c EXCEPT !.clip = Append(@, c.path)]

Command(cmd, c, style, path, rx, ry, source) ==
    [cmd |-> cmd, clip |-> c.clip, style |-> style, path |-> path,
     rx |-> rx, ry |-> ry, source |-> source]

NoSource == Picture("none", 0, 0)

\* fillRect(0, 0, size, size)
FillAll(c) ==
    [c EXCEPT !.drawn = Append(@, Command("fillAll", c, c.fillStyle, <<>>, 0, 0, NoSource))]

Fill(c) ==
    [c EXCEPT !.drawn = Append(@, Command("fill", c, c.fillStyle, c.path, 0, 0, NoSource))]

FillUnitRect(c, rx, ry) ==
    [c EXCEPT !.drawn = Append(@, Command("fillUnit", c, c.fillStyle, <<>>, rx, ry, NoSource))]

\* drawImage(image, 0, 0, size, size): an image that is not decoded yet is
\* not usable and nothing is drawn
DrawImage(c, image) ==
    IF image.decoded
    THEN [c EXCEPT !.drawn = Append(@, Command("drawScaled", c, "", <<>>, 0, 0, image.picture))]
    ELSE c

\* drawImage(canvas, 0, 0): the source at its own size
DrawCanvas(c, source) ==
    [c EXCEPT !.drawn = Append(@, Command("drawAt0", c,  "", <<>>, 0, 0, source))]

RECURSIVE PixelOf(_, _, _)
\* the colour of pixel (x, y) of a surface: the last command that paints it
PixelOf(surface, x, y) ==
    IF x < 0 \/ y < 0 \/ x >= surface.width \/ y >= surface.height
    THEN Transparent
    ELSE IF surface.kind = "picture"
    THEN [src |-> surface.name, u |-> x, v |-> y]
    ELSE LET n == Len(surface.drawn) IN
         IF n = 0 THEN Transparent
         ELSE LET d == surface.drawn[n]
                  below == PixelOf([surface EXCEPT !.drawn = SubSeq(@, 1, n - 1)], x, y)
                  over ==
                    CASE d.cmd = "fillAll"  -> Colour(d.style)
                      [] d.cmd = "fill"     -> IF InPath(d.path, x, y) THEN Colour(d.style)
                                                ELSE Transparent
                      [] d.cmd = "fillUnit" -> IF InUnitRect(d.rx, d.ry, x, y) THEN Colour(d.style)
                                                ELSE Transparent
                      [] d.cmd = "drawScaled" ->
                           PixelOf(d.source,
                                   ((2 * x + 1) * d.source.width) \div (2 * surface.width),
                                   ((2 * y + 1) * d.source.height) \div (2 * surface.height))
                      [] d.cmd = "drawAt0"  -> PixelOf(d.source, x, y)
              IN IF InClip(d.clip, x, y) /\ over # Transparent THEN over ELSE below

\* canvas.toDataURL('image/png'): the PNG of the canvas bitmap
ToDataURL(c) ==
    [mime |-> "image/png",
     bitmap |-> [kind |-> "canvas", width |-> c.width, height |-> c.height,
                 drawn |-> c.drawn]]

\* the picture an image decodes from a PNG data URL
Decode(url) == url.bitmap

-----------------------------------------------------------------------------
(* ImageCompositor *)

defaultDiscBase == "/disc-bg-new.png"

defaultOutputSize == 300

\* 1000 * Math.cos(i / 20 * 2 * PI), i = 0..19
Cos1000(i) ==
    <<1000, 951, 809, 588, 309, 0, -309, -588, -809, -951,
      -1000, -951, -809, -588, -309, 0, 309, 588, 809, 951>>[(i % 20) + 1]

\* sin(a) = cos(a - PI/2)
Sin1000(i) == Cos1000(i + 15)

RECURSIVE Texture(_, _, _)
\* the loop of createSolidDisc: marks i..19 at radius outerRadius * 0.7 =
\* size * 0.28 around the centre, positions in 1/100000 of a pixel
Texture(c, size, i) ==
    IF i >= 20 THEN c
    ELSE Texture(FillUnitRect(c, 50000 * size + Cos1000(i) * 28 * size,
                                 50000 * size + Sin1000(i) * 28 * size),
                 size, i + 1)

OuterCircle(size, ccw) == Circle(size, size, 2 * size, 5, ccw)

InnerCircle(size, ccw) == Circle(size, size, 2 * size, 25, ccw)

\* the canvas createSolidDisc paints
SolidDiscCanvas(size) ==
    LET c0 == NewCanvas(size)
        c1 == FillAll(SetFillStyle(c0, "#f0f0f0"))
        c2 == Fill(Arc(BeginPath(SetFillStyle(c1, "#888888")), OuterCircle(size, FALSE)))
        c3 == Fill(Arc(BeginPath(SetFillStyle(c2, "#ffffff")), InnerCircle(size, FALSE)))
    IN Texture(SetFillStyle(c3, "#666666"), size, 0)

\* createSolidDisc returns the Image right after setting its src.  Whether
\* the image is decoded by then is the browser's choice: decoding is
\* deferred unless the URL is already in the list of available images.
createSolidDisc(size, decoded) ==
    Image(decoded, Decode(ToDataURL(SolidDiscCanvas(size))))

\* the clip of compositeDiscCover: outer circle, then the inner circle
\* counter-clockwise
ClipDisc(c, size) ==
    Clip(Arc(Arc(BeginPath(Save(c)), OuterCircle(size, FALSE)), InnerCircle(size, TRUE)))

NoImage == Image(FALSE, NoSource)

NoOptions == [outputSize |-> Undef]

CompIdle ==
    [pc |-> "idle", url |-> "", options |-> NoOptions, outputSize |-> 0,
     canvas |-> NewCanvas(0), tempCanvas |-> NewCanvas(0),
     generatedImage |-> NoImage, discBaseImage |-> NoImage,
     solidDisc |-> FALSE, loads |-> <<>>, logged |-> <<>>, result |-> Pending]

\* loadImage(src): a new Image with crossOrigin 'anonymous' starts loading
LoadImage(src) == [src |-> src, crossOrigin |-> "anonymous"]

\* the outer catch block: log, rethrow
CompCaught(c, e) ==
    [c EXCEPT !.logged = Append(@, "Error compositing disc cover:"),
              !.result = Throw(e),
              !.pc = "done"]

\* compositeDiscCover up to its first await.  ctx: getContext('2d') gave a
\* context; createCanvas is outside the try block.
StartComposite(url, options, ctx) ==
    LET size == Or(options.outputSize, Num(defaultOutputSize)).n IN
    IF ~ctx
    THEN [CompIdle EXCEPT !.url = url, !.options = options, !.outputSize = size,
                          !.result = Throw("Could not get canvas context"),
                          !.pc = "done"]
    ELSE [CompIdle EXCEPT !.url = url, !.options = options, !.outputSize = size,
                          !.canvas = NewCanvas(size),
                          !.loads = <<LoadImage(url)>>,
                          !.pc = "awaitGenerated"]

\* a compositor that goes on without the generated image
OnGeneratedSettledLenient(c, loaded, picture) ==
    [c EXCEPT !.generatedImage = IF loaded THEN Image(TRUE, picture) ELSE NoImage,
              !.loads = Append(@, LoadImage(defaultDiscBase)),
              !.pc = "awaitDiscBase"]

\* the generated image settled: loaded is FALSE when onerror fired
OnGeneratedSettled(c, loaded, picture) ==
    IF ~loaded
    THEN CompCaught(c, "error event")
    ELSE [c EXCEPT !.generatedImage = Image(TRUE, picture),
                   !.loads = Append(@, LoadImage(defaultDiscBase)),
                   !.pc = "awaitDiscBase"]

\* from "Draw disc base" to the return, given the disc base image
Compose(c, discBaseImage, tempCtx) ==
    LET size == c.outputSize
        based == DrawImage(c.canvas, discBaseImage)
        temp == DrawImage(NewCanvas(size), c.generatedImage)
        clipped == ClipDisc(based, size)
        final == Restore(DrawCanvas(clipped, temp))
    IN IF ~tempCtx
       THEN CompCaught([c EXCEPT !.discBaseImage = discBaseImage, !.canvas = based],
                       "TypeError: Cannot read properties of null")
       ELSE [c EXCEPT !.discBaseImage = discBaseImage,
                      !.tempCanvas = temp,
                      !.canvas = final,
                      !.result = Return(ToDataURL(final)),
                      !.pc = "done"]

\* a compositor that surfaces the failure of the disc base
OnDiscBaseSettledNoFallback(c, loaded, picture, solidCtx, decoded, tempCtx) ==
    IF loaded
    THEN Compose(c, Image(TRUE, picture), tempCtx)
    ELSE CompCaught(c, "error event")

\* the disc base settled: on error the inner catch block warns and falls
\* back to createSolidDisc, whose createCanvas may throw
OnDiscBaseSettled(c, loaded, picture, solidCtx, decoded, tempCtx) ==
    IF loaded
    THEN Compose(c, Image(TRUE, picture), tempCtx)
    ELSE LET warned == [c EXCEPT !.logged = Append(@, "Disc base image not found, creating solid disc")]
         IN IF ~solidCtx
            THEN CompCaught(warned, "Could not get canvas context")
            ELSE Compose([warned EXCEPT !.solidDisc = TRUE],
                         createSolidDisc(c.outputSize, decoded), tempCtx)

-----------------------------------------------------------------------------
(* Inputs and environment of the compositor *)

MaxOutputSize == 12

MaxImageSize == 2

\* the invocations of the compositor followed together
Invocations == {1, 2}

ImageUrls == {"http://localhost:5001/api/images/cover_1.png"}

OutputSizes == {Undef, Num(0)} \cup {Num(k) : k \in 1..MaxOutputSize}

GeneratedPictures == {Picture("generated", w, h) : w, h \in 1..MaxImageSize}

DiscBasePictures == {Picture("discBase", w, w) : w \in 1..MaxImageSize}

-----------------------------------------------------------------------------
(* Compositor actions *)

CallCompositeDiscCover ==
    /\ comp.pc = "idle"
    /\ \E url \in ImageUrls, size \in OutputSizes, ctx \in BOOLEAN :
         comp' = StartComposite(url, [outputSize |-> size], ctx)
    /\ UNCHANGED <<api, apiPc, apiCall, genRequest, genCalls, payload, requests,
                   response, apiResult, console, others>>

GeneratedSettles ==
    /\ comp.pc = "awaitGenerated"
    /\ \/ comp' = OnGeneratedSettled(comp, FALSE, NoSource)
       \/ \E picture \in GeneratedPictures :
            comp' = OnGeneratedSettled(comp, TRUE, picture)
    /\ UNCHANGED <<api, apiPc, apiCall, genRequest, genCalls, payload, requests,
                   response, apiResult, console, others>>

DiscBaseSettles ==
    /\ comp.pc = "awaitDiscBase"
    /\ \E tempCtx \in BOOLEAN :
         \/ \E picture \in DiscBasePictures :
              comp' = OnDiscBaseSettled(comp, TRUE, picture, TRUE, TRUE, tempCtx)
         \/ \E solidCtx, decoded \in BOOLEAN :
              comp' = OnDiscBaseSettled(comp, FALSE, NoSource, solidCtx, decoded, tempCtx)
    /\ UNCHANGED <<api, apiPc, apiCall, genRequest, genCalls, payload, requests,
                   response, apiResult, console, others>>

NextCompositor ==
    \/ CallCompositeDiscCover
    \/ GeneratedSettles
    \/ DiscBaseSettles

-----------------------------------------------------------------------------
(* Two invocations of compositeDiscCover on one page, with the same          *)
(* arguments and the same outcome of each image load, interleaved at their   *)
(* awaits.  The browser's list of available images is followed: an image     *)
(* whose URL is in the list is decoded as soon as its src is set, any other  *)
(* is decoded later, and then enters the list.                               *)

\* the URL createSolidDisc gives its Image
PlaceholderURL(size) == ToDataURL(SolidDiscCanvas(size))

\* how the disc base load of a settled invocation ended
DiscOutcome(c) ==
    IF c.pc # "done" \/ ~c.generatedImage.decoded THEN "none"
    ELSE IF c.logged # <<>> /\ c.logged[1] = "Disc base image not found, creating solid disc"
    THEN "missing"
    ELSE "loaded"

StartsComposite(i) ==
    /\ comps[i].pc = "idle"
    /\ \E url \in ImageUrls, size \in OutputSizes, ctx \in BOOLEAN :
         /\ \A j \in Invocations \ {i} :
              comps[j].pc # "idle" =>
                  (comps[j].url = url /\ comps[j].options = [outputSize |-> size])
         /\ comps' = [comps EXCEPT ![i] = StartComposite(url, [outputSize |-> size], ctx)]
    /\ UNCHANGED <<api, apiPc, apiCall, genRequest, genCalls, payload, requests,
                   response, apiResult, console, comp, urlResult, available, loading>>

GeneratedSettlesIn(i) ==
    /\ comps[i].pc = "awaitGenerated"
    /\ \/ comps' = [comps EXCEPT ![i] = OnGeneratedSettled(comps[i], FALSE, NoSource)]
       \/ \E picture \in GeneratedPictures :
            /\ \A j \in Invocations \ {i} :
                 comps[j].generatedImage.decoded => comps[j].generatedImage.picture = picture
            /\ comps' = [comps EXCEPT ![i] = OnGeneratedSettled(comps[i], TRUE, picture)]
    /\ UNCHANGED <<api, apiPc, apiCall, genRequest, genCalls, payload, requests,
                   response, apiResult, console, comp, urlResult, available, loading>>

DiscBaseSettlesIn(i) ==
    /\ comps[i].pc = "awaitDiscBase"
    /\ \E tempCtx \in BOOLEAN :
         \/ \E picture \in DiscBasePictures :
              /\ \A j \in Invocations \ {i} :
                   /\ DiscOutcome(comps[j]) # "missing"
                   /\ DiscOutcome(comps[j]) = "loaded" => comps[j].discBaseImage.picture = picture
              /\ comps' = [comps EXCEPT ![i] =
                             OnDiscBaseSettled(comps[i], TRUE, picture, TRUE, TRUE, tempCtx)]
              /\ UNCHANGED loading
         \/ \E solidCtx \in BOOLEAN :
              LET src == PlaceholderURL(comps[i].outputSize) IN
              /\ \A j \in Invocations \ {i} : DiscOutcome(comps[j]) # "loaded"
              /\ comps' = [comps EXCEPT ![i] =
                             OnDiscBaseSettled(comps[i], FALSE, NoSource, solidCtx,
                                               src \in available, tempCtx)]
              /\ loading' = IF solidCtx /\ src \notin available
                            THEN loading \cup {src} ELSE loading
    /\ UNCHANGED <<api, apiPc, apiCall, genRequest, genCalls, payload, requests,
                   response, apiResult, console, comp, urlResult, available>>

\* the browser finishes loading an image and adds it to the list
ImageBecomesAvailable ==
    /\ \E src \in loading :
         /\ available' = available \cup {src}
         /\ loading' = loading \ {src}
    /\ UNCHANGED <<api, apiPc, apiCall, genRequest, genCalls, payload, requests,
                   response, apiResult, console, comp, urlResult, comps>>

\* the browser may drop an entry of the list at any time
ImageEvicted ==
    /\ \E src \in available : available' = available \ {src}
    /\ UNCHANGED <<api, apiPc, apiCall, genRequest, genCalls, payload, requests,
                   response, apiResult, console, comp, urlResult, comps, loading>>

NextTwoCompositions ==
    \/ \E i \in Invocations : StartsComposite(i)
    \/ \E i \in Invocations : GeneratedSettlesIn(i)
    \/ \E i \in Invocations : DiscBaseSettlesIn(i)
    \/ ImageBecomesAvailable
    \/ ImageEvicted

-----------------------------------------------------------------------------
(* Specifications *)

Init ==
    /\ api = Constructor(DefaultBaseURL)
    /\ apiPc = "idle"
    /\ apiCall = NoCall
    /\ genRequest = NoRequest
    /\ genCalls = 0
    /\ payload = NoRequest
    /\ requests = <<>>
    /\ response = NoResponse
    /\ apiResult = Pending
    /\ console = <<>>
    /\ comp = CompIdle
    /\ urlResult = NoURL
    /\ comps = [i \in Invocations |-> CompIdle]
    /\ available = {}
    /\ loading = {}

NextClient ==
    \/ CallGetModels
    \/ CallGenerateImage
    \/ CallGeneratePlaylistCover
    \/ CallDownloadImage
    \/ FetchRejects
    \/ FetchResolves
    \/ JsonSettles
    \/ BlobSettles

vars == <<api, apiPc, apiCall, genRequest, genCalls, payload, requests,
          response, apiResult, console, comp, urlResult, comps, available,
          loading>>

\* one client invocation, from the call to its settling
SpecClient == Init /\ [][NextClient]_vars

\* one compositeDiscCover invocation, from the call to its settling
SpecCompositor == Init /\ [][NextCompositor]_vars

\* getImageURL called around and during the invocations of the methods that
\* fetch (generateImage is entered through generatePlaylistCover)
NextImageURL ==
    \/ CallGetImageURL
    \/ CallGetModels
    \/ CallGeneratePlaylistCover
    \/ CallDownloadImage
    \/ FetchRejects
    \/ FetchResolves
    \/ JsonSettles
    \/ BlobSettles

SpecImageURL == Init /\ [][NextImageURL]_vars

\* two compositeDiscCover invocations with the same inputs
SpecTwoCompositions == Init /\ [][NextTwoCompositions]_vars

-----------------------------------------------------------------------------
(* Properties of the Disc Compositor, checked under SpecCompositor *)

CompDone == comp.pc = "done"

CompReturned == comp.pc = "done" /\ comp.result.outcome = "returned"

\* the errors of a 2D context that could not be acquired
ContextErrors == {"Could not get canvas context", "TypeError: Cannot read properties of null"}

\* C6: once the generated image has loaded, the call can fail only for a
\* missing 2D context: whether the disc background loads or not, it resolves
\* with a PNG data URL, and when the load failed the disc base is the
\* synthesized placeholder.
C6_DiscBaseFailureNotSurfaced ==
    (CompDone /\ comp.generatedImage.decoded) =>
        /\ comp.result.outcome = "thrown" => comp.result.error \in ContextErrors
        /\ comp.result.outcome = "returned" =>
             /\ comp.result.value.mime = "image/png"
             /\ comp.loads = <<LoadImage(comp.url), LoadImage("/disc-bg-new.png")>>
             /\ comp.solidDisc =>
                  /\ comp.discBaseImage.picture.kind = "canvas"
                  /\ comp.discBaseImage.picture.width = comp.outputSize
                  /\ comp.discBaseImage.picture.height = comp.outputSize
                  /\ comp.discBaseImage.picture.drawn # <<>>

\* the disc background failed to load and the call resolved
C6_Witness ==
    /\ CompReturned
    /\ comp.solidDisc
    /\ comp.logged = <<"Disc base image not found, creating solid disc">>
    /\ comp.result.value.mime = "image/png"
    /\ comp.result.value.bitmap.width = comp.outputSize

\* four times the squared distance of the centre of pixel (x, y) from the
\* centre (S/2, S/2)
Dist2x4(S, x, y) == (2 * x + 1 - S) * (2 * x + 1 - S) + (2 * y + 1 - S) * (2 * y + 1 - S)

\* all pixels of a small output; the two axes and a diagonal of a large one
Sampled(S) ==
    IF S <= MaxOutputSize
    THEN (0..(S - 1)) \X (0..(S - 1))
    ELSE {<<k, S \div 2>> : k \in 0..(S - 1)} \cup {<<S \div 2, k>> : k \in 0..(S - 1)}
         \cup {<<k, k>> : k \in 0..(S - 1)}

\* C7: with the disc background missing and a square generated image, the
\* output is S by S and shows the hole colour for d < 0.08*S, the generated
\* image for 0.08*S < d < 0.4*S and the placeholder's outer fill for
\* d > 0.4*S.
C7_AnnulusOverPlaceholder ==
    (CompReturned /\ comp.solidDisc
       /\ comp.generatedImage.picture.width = comp.generatedImage.picture.height) =>
        LET S == comp.outputSize
            out == comp.result.value.bitmap
            N == comp.generatedImage.picture.width
        IN /\ out.width = S
           /\ out.height = S
           /\ \A p \in Sampled(S) :
                LET x == p[1]
                    y == p[2]
                    d == Dist2x4(S, x, y)
                IN /\ 625 * d < 16 * S * S => PixelOf(out, x, y) = Colour("#ffffff")
                   /\ (625 * d > 16 * S * S /\ 25 * d < 16 * S * S)
                        => PixelOf(out, x, y) =
                             [src |-> "generated", u |-> ((2 * x + 1) * N) \div (2 * S),
                              v |-> ((2 * y + 1) * N) \div (2 * S)]
                   /\ 25 * d > 16 * S * S => PixelOf(out, x, y) = Colour("#f0f0f0")

\* C8: when the generated image cannot be loaded the call rejects: no data
\* URL, no substitute image, no disc-background load, no drawing.
C8_GeneratedFailureRejects ==
    (CompDone /\ comp.loads # <<>> /\ ~comp.generatedImage.decoded) =>
        /\ comp.result.outcome = "thrown"
        /\ comp.result.value = ""
        /\ comp.generatedImage = NoImage
        /\ comp.loads = <<LoadImage(comp.url)>>
        /\ comp.discBaseImage = NoImage
        /\ ~comp.solidDisc
        /\ comp.canvas.drawn = <<>>
        /\ comp.tempCanvas.drawn = <<>>

\* the load of the generated image failed and the call rejected
C8_Witness ==
    /\ CompDone
    /\ comp.loads = <<LoadImage(comp.url)>>
    /\ comp.result = Throw("error event")
    /\ comp.logged = <<"Error compositing disc cover:">>

\* C13: in every successful invocation the disc background, loaded or
\* synthesized, is available when it is drawn and is drawn over the whole
\* output surface before the clipped generated image.
C13_BackgroundDrawnFirst ==
    CompReturned =>
        /\ comp.discBaseImage.decoded
        /\ Len(comp.canvas.drawn) = 2
        /\ comp.canvas.drawn[1].cmd = "drawScaled"
        /\ comp.canvas.drawn[1].source = comp.discBaseImage.picture
        /\ comp.canvas.drawn[1].clip = <<>>
        /\ comp.canvas.drawn[2].cmd = "drawAt0"
        /\ comp.canvas.drawn[2].source.drawn # <<>>
        /\ comp.canvas.drawn[2].clip =
             <<<<OuterCircle(comp.outputSize, FALSE), InnerCircle(comp.outputSize, TRUE)>>>>

-----------------------------------------------------------------------------
(* Properties of two invocations, checked under SpecTwoCompositions *)

\* two PNG data URLs encode the same bitmap
SameOutput(a, b) ==
    /\ a.mime = b.mime
    /\ a.bitmap.width = b.bitmap.width
    /\ a.bitmap.height = b.bitmap.height
    /\ \A p \in Sampled(a.bitmap.width) :
         PixelOf(a.bitmap, p[1], p[2]) = PixelOf(b.bitmap, p[1], p[2])

\* C12: two invocations with the same URL, options, generated image and
\* disc-background outcome return identical output, however they are
\* interleaved.
C12_SameInputsSameOutput ==
    (\A i \in Invocations : comps[i].pc = "done" /\ comps[i].result.outcome = "returned")
        => SameOutput(comps[1].result.value, comps[2].result.value)

-----------------------------------------------------------------------------
(* Properties of the Generation Client, checked under SpecClient *)

\* the body of the request generateImage sent
Sent == requests[1].body

Received == response # NoResponse

IsGenerate == apiCall.op \in {"generateImage", "generatePlaylistCover"}

\* the body can be read and is valid JSON
ParsesAsJSON(r) == r.body.readable /\ r.body.parse # "invalid"

\* C1: every optional field the caller left unset is in the JSON payload
\* POSTed to the txt2img endpoint with its documented default, and the prompt
\* is sent as given.
C1_UnsetFieldsCarryDefaults ==
    genCalls > 0 =>
        /\ requests[1].method = "POST"
        /\ requests[1].url = "http://localhost:5001/api/txt2img"
        /\ DOMAIN Sent = Fields
        /\ Sent["prompt"] = genRequest["prompt"]
        /\ genRequest["negative_prompt"] = Undef
             => Sent["negative_prompt"] = Str("blurry, low quality, bad anatomy")
        /\ genRequest["checkpoint"] = Undef
             => Sent["checkpoint"] = Str("stable-diffusion-v1-5.safetensors")
        /\ genRequest["steps"] = Undef => Sent["steps"] = Num(20)
        /\ genRequest["cfg"] = Undef => Sent["cfg"] = Num(7)
        /\ genRequest["width"] = Undef => Sent["width"] = Num(300)
        /\ genRequest["height"] = Undef => Sent["height"] = Num(300)
        /\ genRequest["batch_size"] = Undef => Sent["batch_size"] = Num(1)

\* a request that sets some optional fields and leaves others unset was sent
C1_Witness ==
    /\ apiCall.op = "generateImage"
    /\ genCalls = 1
    /\ genRequest["prompt"] = Str("a cat")
    /\ genRequest["steps"] = Num(64)
    /\ genRequest["width"] = Undef
    /\ genRequest["negative_prompt"] = Undef
    /\ Sent["width"] = Num(300)
    /\ Sent["steps"] = Num(64)

\* C2: every optional field the caller supplied, 0 and the empty string
\* included, is in the payload with the caller's value.
C2_SuppliedFieldsUnchanged ==
    genCalls > 0 =>
        \A f \in OptionalFields :
            genRequest[f] # Undef => (f \in DOMAIN Sent /\ Sent[f] = genRequest[f])

\* C3: getModels returns the model list of the response exactly when the
\* parsed status is 'success', throws in every other case, and sends one
\* request only.
C3_ModelsOnlyOnSuccess ==
    /\ apiCall.op = "getModels" => Len(requests) = 1
    /\ (apiCall.op = "getModels" /\ apiPc = "done") =>
        /\ apiResult.outcome \in {"returned", "thrown"}
        /\ apiResult.outcome = "returned"
             <=> /\ Received
                 /\ ParsesAsJSON(response)
                 /\ response.body.parse = "object"
                 /\ response.body.status = Str("success")
        /\ apiResult.outcome = "returned" => apiResult.value = response.body.models

\* the backend answered {status: "error"} with a model list, and getModels threw
C3_Witness ==
    /\ apiCall.op = "getModels"
    /\ apiPc = "done"
    /\ response.body.status = Str("error")
    /\ response.body.models = Array(<<"sd15", "sdxl">>)
    /\ apiResult.outcome = "thrown"
    /\ apiResult.error = "Failed to fetch models"

\* C4: generateImage returns the parsed body unchanged whenever the body
\* parses as JSON, whatever its status or error members say, and throws only
\* when fetch failed or the body is not valid JSON.
C4_GenerateReturnsVerbatim ==
    (IsGenerate /\ apiPc = "done") =>
        /\ (Received /\ ParsesAsJSON(response))
             => (apiResult.outcome = "returned" /\ apiResult.value = response.body)
        /\ apiResult.outcome = "thrown" => (~Received \/ ~ParsesAsJSON(response))

\* a body reporting failure was handed back to the caller
C4_Witness ==
    /\ apiCall.op = "generateImage"
    /\ apiPc = "done"
    /\ apiResult.outcome = "returned"
    /\ apiResult.value.status = Str("error")
    /\ apiResult.value.error = Str("CUDA out of memory")

\* C5 as stated: every operation throws on a non-2xx HTTP status, whatever
\* the body contains.
C5_Non2xxAlwaysThrows ==
    (apiPc = "done" /\ Received /\ ~Ok(response)) => apiResult.outcome = "thrown"

\* what getModels and generateImage do with a body, whatever the HTTP status
ThrowsOnBody(op, r) ==
    \/ ~ParsesAsJSON(r)
    \/ op = "getModels" /\ (r.body.parse = "null" \/ r.body.status # Str("success"))

\* C5 (amended): downloadImage throws on every non-2xx status; getModels and
\* generateImage do not look at the HTTP status and throw exactly when the
\* body is unreadable or not valid JSON or, for getModels, when the parsed
\* status is not 'success'; no operation sends a second request.
C5_OnlyDownloadChecksStatus ==
    /\ Len(requests) <= 1
    /\ (apiPc = "done" /\ Received) =>
        IF apiCall.op = "downloadImage"
        THEN ~Ok(response) => apiResult.outcome = "thrown"
        ELSE apiResult.outcome = "thrown" <=> ThrowsOnBody(apiCall.op, response)

\* a 500 with a readable body made downloadImage throw
C5_Witness ==
    /\ apiCall.op = "downloadImage"
    /\ apiPc = "done"
    /\ response.status = 500
    /\ response.body.bytes = "PNG-bytes"
    /\ apiResult.outcome = "thrown"
    /\ Len(requests) = 1

\* the prompt C9 describes: the style's template with the mood in it
TemplateOf(style, mood) ==
    CASE style = "gradients" -> "beautiful gradient, " \o mood \o ", artistic, 300x300px, square"
      [] style = "abstract"  -> "abstract geometric shapes, " \o mood \o ", modern art, 300x300px, square"
      [] style = "nature"    -> "nature landscape, " \o mood \o ", scenic, 300x300px, square"

Inspired(name) == ", inspired by \"" \o name \o "\""

\* C9 as stated: the clause is appended exactly when a playlist name is given.
C9_ClauseWheneverNameGiven ==
    (apiCall.op = "generatePlaylistCover" /\ apiPc # "idle") =>
        /\ genCalls = 1
        /\ genRequest =
             OnlyPrompt(TemplateOf(apiCall.style, apiCall.mood)
                        \o (IF apiCall.playlistName # Undef
                            THEN Inspired(apiCall.playlistName.s) ELSE ""))

\* C9 (amended): generatePlaylistCover enters generateImage once, with a
\* request whose only set field is the prompt: the style's template with the
\* mood substituted, followed by the clause exactly when a non-empty playlist
\* name is given.
C9_ClauseWhenNameNonEmpty ==
    (apiCall.op = "generatePlaylistCover" /\ apiPc # "idle") =>
        /\ genCalls = 1
        /\ \A f \in OptionalFields : genRequest[f] = Undef
        /\ genRequest["prompt"] =
             Str(TemplateOf(apiCall.style, apiCall.mood)
                 \o (IF apiCall.playlistName \notin {Undef, Str("")}
                     THEN Inspired(apiCall.playlistName.s) ELSE ""))
        /\ (apiCall.style = "gradients" /\ apiCall.mood = "calm"
              /\ apiCall.playlistName = Str("Late Night"))
             => genRequest["prompt"] =
                  Str("beautiful gradient, calm, artistic, 300x300px, square, inspired by \"Late Night\"")

\* the cover for (gradients, calm, Late Night) was requested
C9_Witness ==
    /\ apiCall.op = "generatePlaylistCover"
    /\ apiCall.style = "gradients"
    /\ apiCall.mood = "calm"
    /\ apiCall.playlistName = Str("Late Night")
    /\ genCalls = 1
    /\ Len(requests) = 1
    /\ Sent["prompt"] = genRequest["prompt"]

\* C10: downloadImage sends one GET to getImageURL(filename), throws when
\* the status is not a success status, and otherwise returns the raw bytes of
\* the body.
C10_DownloadImage ==
    apiCall.op = "downloadImage" =>
        /\ requests = <<Get(getImageURL(api, apiCall.filename))>>
        /\ (apiPc = "done" /\ Received /\ ~Ok(response)) => apiResult.outcome = "thrown"
        /\ (apiPc = "done" /\ Received /\ Ok(response) /\ response.body.readable)
             => apiResult = Return(response.body.bytes)
        /\ apiResult.outcome = "returned" => (Received /\ Ok(response))

\* a download of a file with reserved characters in its name returned bytes
C10_Witness ==
    /\ apiCall.op = "downloadImage"
    /\ apiCall.filename = "a b&c?.png"
    /\ apiPc = "done"
    /\ response.status = 200
    /\ apiResult = Return("PNG-bytes")

-----------------------------------------------------------------------------
(* Properties of getImageURL, checked under SpecImageURL *)

\* C11: getImageURL returns '<baseURL>:5001/api/images' + '/' + filename with
\* the file name unescaped, and a call sends no request and changes no field
\* of the client nor anything of an invocation in flight.
C11_GetImageURLPure ==
    /\ [](urlResult.calls > 0 =>
            /\ urlResult.value = api.baseURL \o ":5001/api/images" \o "/" \o urlResult.filename
            /\ api.baseURL = "http://localhost"
            /\ (urlResult.filename = "a b&c?.png"
                  => urlResult.value = "http://localhost:5001/api/images/a b&c?.png"))
    /\ [][urlResult' # urlResult =>
            UNCHANGED <<api, apiPc, apiCall, genRequest, genCalls, payload, requests,
                        response, apiResult, console>>]_vars

\* getImageURL was called twice, the second time while a download was waiting
\* for its body, with a file name holding reserved characters
C11_Witness ==
    /\ urlResult.calls = 2
    /\ urlResult.filename = "a b&c?.png"
    /\ urlResult.value = "http://localhost:5001/api/images/a b&c?.png"
    /\ apiCall.op = "downloadImage"
    /\ apiPc = "blob"
    /\ Len(requests) = 1

====
